---- MODULE Spec2Model ----
(***************************************************************************)
(* Model of tool/tsh/proxy.go (tsh proxy ssh / db / app) and of the two    *)
(* client timeout tests of lib/auth.                                        *)
(*                                                                         *)
(* Three state machines share the variable tuple; each has its own         *)
(* initial predicate and next-state relation:                              *)
(*   Spec       onProxyCommandDB and onProxyCommandApp with their watcher  *)
(*              goroutine, the listener and the local proxy                *)
(*   FairSpec   Spec with the goroutines scheduled fairly                   *)
(*   SSHSpec    onProxyCommandSSH and cleanTargetHost                       *)
(*   ClientSpec TestClient_DialTimeout and TestClient_RequestTimeout        *)
(***************************************************************************)
EXTENDS Integers, Sequences, FiniteSets, TLC

VARIABLES
    \* ---- tsh proxy db / tsh proxy app ----
    cmd,          \* "db" | "app" | "idle"
    certFile,     \* cf.LocalProxyCertFile
    keyFile,      \* cf.LocalProxyKeyFile
    appCached,    \* key.AppTLSCerts[appName] is present
    notAfter,     \* x509cert.NotAfter of the cached certificate (seconds)
    now,          \* time.Now() when the certificate is checked (seconds)
    pc,           \* position of the command's goroutine
    ret,          \* error returned by the command ("running" until it returns)
    defers,       \* stack of deferred calls, last registered first
    listener,     \* "none" | "open" | "closed"
    opened,       \* number of sockets opened by net.Listen
    released,     \* number of times the listener's socket was released
    closeErrs,    \* number of listener.Close() calls that returned an error
    lp,           \* "none" | "built"
    lpStopped,    \* the local proxy's "already stopped" flag
    lpClosers,    \* callers of lp.Close(), in the order of their calls
    panicked,     \* a Close was invoked on a nil proxy or nil listener
    ctxDone,      \* cf.Context is cancelled
    wpc,          \* position of the cancellation watcher goroutine
    certsRes,     \* result of mkLocalProxyCerts, "notcalled" before
    loadIn,       \* outcomes of the library calls inside loadAppCertificate
    loadRes,      \* error returned by loadAppCertificate, "notcalled" before
    \* ---- tsh proxy ssh ----
    sshPc,
    tcHost,       \* tc.Host
    proxyHost,    \* tc.WebProxyHost()
    siteName,     \* tc.SiteName
    tlsRouting,   \* tc.TLSRoutingEnabled
    targetHost,
    targetPort,
    invoked,      \* sequence of strategy invocations with their arguments
    stratRet,     \* error returned by the invoked strategy
    sshRet,       \* error returned by onProxyCommandSSH
    \* ---- client timeout tests ----
    test,         \* "dial" | "request" | "idle"
    tpc,          \* position of the test's goroutine
    gpc,          \* position of the goroutine the test starts
    cfgTimeout,   \* cfg.DialTimeout of the test's configuration
    cltTimeout,   \* dial timeout of the client built by NewClient
    elapsed,      \* time since the operation was started
    opErr,        \* error returned by the operation, "pending" before
    opEnd,        \* value of elapsed when the operation returned
    errChan,      \* buffered channel of capacity 1
    rootHits,     \* requests served by the initial endpoint
    slowHits,     \* requests served by the slow endpoint
    sawRoot,      \* buffered channel of capacity 1
    sawSlow,      \* buffered channel of capacity 1
    testResult    \* "running" | "pass" | "fatal"

proxyVars == <<cmd, certFile, keyFile, appCached, notAfter, now, pc, ret,
               defers, listener, opened, released, closeErrs, lp, lpStopped,
               lpClosers, panicked, ctxDone, wpc, certsRes, loadIn, loadRes>>
sshVars == <<sshPc, tcHost, proxyHost, siteName, tlsRouting, targetHost,
             targetPort, invoked, stratRet, sshRet>>
clientVars == <<test, tpc, gpc, cfgTimeout, cltTimeout, elapsed, opErr, opEnd,
                errChan, rootHits, slowHits, sawRoot, sawSlow, testResult>>
vars == <<proxyVars, sshVars, clientVars>>

(***************************************************************************)
(* Bounds                                                                  *)
(***************************************************************************)
MaxNotAfter == 9
MaxNow == 3
MaxHostLen == 4
MaxNameLen == 1
MaxDialTimeout == 6

(***************************************************************************)
(* Idle values of the machines a specification does not run                *)
(***************************************************************************)
\* values of certsRes and loadIn before the calls they record
CertsNotCalled == [called |-> FALSE, certs |-> -1, err |-> "nil", loaded |-> FALSE]
LoadNotCalled == [getKeyOk |-> FALSE, pairOk |-> FALSE, nCerts |-> 0, parseOk |-> FALSE]

ProxyIdle ==
    /\ cmd = "idle" /\ certFile = "" /\ keyFile = ""
    /\ appCached = FALSE /\ notAfter = 0 /\ now = 0
    /\ pc = "idle" /\ ret = "running" /\ defers = <<>>
    /\ listener = "none" /\ opened = 0 /\ released = 0 /\ closeErrs = 0
    /\ lp = "none" /\ lpStopped = FALSE /\ lpClosers = <<>>
    /\ panicked = FALSE /\ ctxDone = FALSE /\ wpc = "none"
    /\ certsRes = CertsNotCalled /\ loadIn = LoadNotCalled /\ loadRes = "notcalled"

SSHIdle ==
    /\ sshPc = "idle" /\ tcHost = <<>> /\ proxyHost = <<>> /\ siteName = <<>>
    /\ tlsRouting = FALSE /\ targetHost = <<>> /\ targetPort = <<>>
    /\ invoked = <<>> /\ stratRet = "none" /\ sshRet = "running"

ClientIdle ==
    /\ test = "idle" /\ tpc = "idle" /\ gpc = "none"
    /\ cfgTimeout = 0 /\ cltTimeout = 0 /\ elapsed = 0
    /\ opErr = "pending" /\ opEnd = 0 /\ errChan = <<>>
    /\ rootHits = 0 /\ slowHits = 0 /\ sawRoot = <<>> /\ sawSlow = <<>>
    /\ testResult = "running"

(***************************************************************************)
(* tsh proxy db / tsh proxy app                                            *)
(***************************************************************************)

\* 5*time.Second in loadAppCertificate
NearExpiry == 5

Paths == {"", "file.pem"}

\* trace.BadParameter errors of this file
IsBadParameter(e) == e \in {"ErrCertKeyBothRequired", "ErrAppCertExpired"}
\* trace.NotFound errors of this file
IsNotFound(e) == e \in {"ErrAppNotLoggedIn", "ErrAppInvalidCert"}

\* mkLocalProxyCerts with only the first half of the partiality test
mkLocalProxyCertsOneSided(cert, key, loadOk) ==
    IF cert = "" /\ key = ""
    THEN [called |-> TRUE, certs |-> 0, err |-> "nil", loaded |-> FALSE]
    ELSE IF cert = "" /\ key # ""
    THEN [called |-> TRUE, certs |-> -1, err |-> "ErrCertKeyBothRequired", loaded |-> FALSE]
    ELSE IF ~loadOk
    THEN [called |-> TRUE, certs |-> -1, err |-> "ErrLoadX509KeyPair", loaded |-> TRUE]
    ELSE [called |-> TRUE, certs |-> 1, err |-> "nil", loaded |-> TRUE]

\* mkLocalProxyCerts: certs is the length of the returned slice, -1 for nil;
\* loaded tells whether tls.LoadX509KeyPair was called.
mkLocalProxyCerts(cert, key, loadOk) ==
    IF cert = "" /\ key = ""
    THEN [called |-> TRUE, certs |-> 0, err |-> "nil", loaded |-> FALSE]
    ELSE IF (cert = "" /\ key # "") \/ (cert # "" /\ key = "")
    THEN [called |-> TRUE, certs |-> -1, err |-> "ErrCertKeyBothRequired", loaded |-> FALSE]
    ELSE IF ~loadOk
    THEN [called |-> TRUE, certs |-> -1, err |-> "ErrLoadX509KeyPair", loaded |-> TRUE]
    ELSE [called |-> TRUE, certs |-> 1, err |-> "nil", loaded |-> TRUE]

\* loadAppCertificate rejecting only certificates that have already expired
loadAppCertificateNoBuffer(in, cached, expiry, t) ==
    IF ~in.getKeyOk THEN "ErrGetKey"
    ELSE IF ~cached THEN "ErrAppNotLoggedIn"
    ELSE IF ~in.pairOk THEN "ErrX509KeyPair"
    ELSE IF in.nCerts < 1 THEN "ErrAppInvalidCert"
    ELSE IF ~in.parseOk THEN "ErrParseCertificate"
    ELSE IF expiry - t < 0 THEN "ErrAppCertExpired"
    ELSE "nil"

\* loadAppCertificate: in gives the outcomes of GetKey, X509KeyPair,
\* len(cert.Certificate) and ParseCertificate.
loadAppCertificate(in, cached, expiry, t) ==
    IF ~in.getKeyOk THEN "ErrGetKey"
    ELSE IF ~cached THEN "ErrAppNotLoggedIn"
    ELSE IF ~in.pairOk THEN "ErrX509KeyPair"
    ELSE IF in.nCerts < 1 THEN "ErrAppInvalidCert"
    ELSE IF ~in.parseOk THEN "ErrParseCertificate"
    ELSE IF expiry - t < NearExpiry THEN "ErrAppCertExpired"
    ELSE "nil"

LoadInputs == [getKeyOk : BOOLEAN, pairOk : BOOLEAN, nCerts : 0..1, parseOk : BOOLEAN]

\* a Close that releases the socket on every call
NetListenerCloseUnguarded ==
    /\ listener' = IF listener = "none" THEN listener ELSE "closed"
    /\ released' = IF listener = "none" THEN released ELSE released + 1
    /\ panicked' = (panicked \/ listener = "none")

\* listener.Close(): the first call releases the socket, a later call
\* returns an error and releases nothing; a nil listener panics.
NetListenerClose ==
    /\ listener' = IF listener = "open" THEN "closed" ELSE listener
    /\ released' = IF listener = "open" THEN released + 1 ELSE released
    /\ panicked' = (panicked \/ listener = "none")

\* lp.Close(): stops the proxy once; the first call closes the listener the
\* proxy was given, a repeated call is guarded by the stopped flag.
LocalProxyClose(who) ==
    /\ lpClosers' = Append(lpClosers, who)
    /\ IF lp = "none"
       THEN panicked' = TRUE /\ UNCHANGED <<listener, released, lpStopped>>
       ELSE IF lpStopped
       THEN UNCHANGED <<listener, released, lpStopped, panicked>>
       ELSE lpStopped' = TRUE /\ NetListenerClose

\* lp.Start(ctx) accepts until ctx is done or the listener is closed.
StartUnblocked == ctxDone \/ listener # "open"

Return(e) == pc' = "unwind" /\ ret' = e

inputVars == <<cmd, certFile, keyFile, appCached, notAfter, now>>
closeVars == <<listener, released, closeErrs, lpStopped, lpClosers, panicked>>
sockVars == <<listener, opened, released, closeErrs>>
lpVars == <<lp, lpStopped, lpClosers, panicked>>
recVars == <<certsRes, loadIn, loadRes>>

\* A call that either fails with error e or lets the command go on at next.
Call(at, e, next) ==
    /\ pc = at
    /\ \E ok \in BOOLEAN :
          IF ok THEN pc' = next /\ UNCHANGED ret ELSE Return(e)
    /\ UNCHANGED <<inputVars, defers, sockVars, lpVars, ctxDone, wpc, recVars>>

\* net.Listen("tcp", addr)
Listen(at, next, deferred) ==
    /\ pc = at
    /\ \E ok \in BOOLEAN :
          IF ok
          THEN /\ listener' = "open"
               /\ opened' = opened + 1
               /\ defers' = deferred \o defers
               /\ pc' = next
               /\ UNCHANGED ret
          ELSE /\ Return("ErrListen")
               /\ UNCHANGED <<listener, opened, defers>>
    /\ UNCHANGED <<inputVars, released, closeErrs, lpVars, ctxDone, wpc, recVars>>

---------------------------------------------------------------------------
\* onProxyCommandDB

DBMakeClient == cmd = "db" /\ Call("db_makeClient", "ErrMakeClient", "db_pickDatabase")
DBPickDatabase == cmd = "db" /\ Call("db_pickDatabase", "ErrPickDatabase", "db_rootCluster")
DBRootCluster == cmd = "db" /\ Call("db_rootCluster", "ErrRootClusterName", "db_listen")

\* listener, err := net.Listen(...); defer func() { listener.Close() }()
DBListen == cmd = "db" /\ Listen("db_listen", "db_mkLocalProxy", <<"listenerClose">>)

\* mkLocalProxy: ToALPNProtocol, ParseAddr, mkLocalProxyCerts, NewLocalProxy
mkLocalProxy(alpnOk, addrOk, loadOk, newOk) ==
    LET c == mkLocalProxyCerts(certFile, keyFile, loadOk) IN
    IF ~alpnOk THEN [err |-> "ErrToALPNProtocol", certs |-> CertsNotCalled]
    ELSE IF ~addrOk THEN [err |-> "ErrParseAddr", certs |-> CertsNotCalled]
    ELSE IF c.err # "nil" THEN [err |-> c.err, certs |-> c]
    ELSE IF ~newOk THEN [err |-> "ErrNewLocalProxy", certs |-> c]
    ELSE [err |-> "nil", certs |-> c]

DBMkLocalProxy ==
    /\ cmd = "db" /\ pc = "db_mkLocalProxy"
    /\ \E alpnOk, addrOk, loadOk, newOk \in BOOLEAN :
          LET r == mkLocalProxy(alpnOk, addrOk, loadOk, newOk) IN
          /\ certsRes' = r.certs
          /\ IF r.err = "nil"
             THEN lp' = "built" /\ pc' = "db_goWatcher" /\ UNCHANGED ret
             ELSE Return(r.err) /\ UNCHANGED lp
    /\ UNCHANGED <<inputVars, defers, sockVars, lpStopped, lpClosers,
                   panicked, ctxDone, wpc, loadIn, loadRes>>

\* go func() { <-cf.Context.Done(); lp.Close() }()
GoWatcher(at, next) ==
    /\ pc = at
    /\ wpc' = "w_wait"
    /\ pc' = next
    /\ UNCHANGED <<inputVars, ret, defers, sockVars, lpVars, ctxDone, recVars>>

DBGoWatcher == cmd = "db" /\ GoWatcher("db_goWatcher", "db_statusCurrent")
DBStatusCurrent == cmd = "db" /\ Call("db_statusCurrent", "ErrStatusCurrent", "db_template")
DBTemplate == cmd = "db" /\ Call("db_template", "ErrTemplateExecute", "db_start")

\* defer lp.Close(); lp.Start(cf.Context) is entered
EnterStart(at, next) ==
    /\ pc = at
    /\ defers' = <<"lpClose">> \o defers
    /\ pc' = next
    /\ UNCHANGED <<inputVars, ret, sockVars, lpVars, ctxDone, wpc, recVars>>

DBEnterStart == cmd = "db" /\ EnterStart("db_start", "db_started")

\* lp.Start returns; its error is returned wrapped
DBStartReturns ==
    /\ cmd = "db" /\ pc = "db_started"
    /\ StartUnblocked
    /\ \E e \in {"nil", "ErrStart"} : Return(e)
    /\ UNCHANGED <<inputVars, defers, sockVars, lpVars, ctxDone, wpc, recVars>>

---------------------------------------------------------------------------
\* onProxyCommandApp

AppMakeClient == cmd = "app" /\ Call("app_makeClient", "ErrMakeClient", "app_loadCert")

AppLoadCertificate ==
    /\ cmd = "app" /\ pc = "app_loadCert"
    /\ \E in \in LoadInputs :
          LET e == loadAppCertificate(in, appCached, notAfter, now) IN
          /\ loadIn' = in
          /\ loadRes' = e
          /\ IF e = "nil"
             THEN pc' = "app_parseAddr" /\ UNCHANGED ret
             ELSE Return(e)
    /\ UNCHANGED <<inputVars, defers, sockVars, lpVars, ctxDone, wpc, certsRes>>

AppParseAddr == cmd = "app" /\ Call("app_parseAddr", "ErrParseAddr", "app_listen")
AppListen == cmd = "app" /\ Listen("app_listen", "app_newProxy", <<>>)

\* NewLocalProxy's failure path without the inline listener.Close()
AppNewLocalProxyLeaky ==
    /\ cmd = "app" /\ pc = "app_newProxy"
    /\ \E ok \in BOOLEAN :
          IF ok
          THEN lp' = "built" /\ pc' = "app_goWatcher" /\ UNCHANGED ret
          ELSE Return("ErrNewLocalProxy") /\ UNCHANGED lp
    /\ UNCHANGED <<inputVars, defers, sockVars, lpStopped, lpClosers, panicked,
                   ctxDone, wpc, recVars>>

\* alpnproxy.NewLocalProxy; on failure the listener is closed inline
AppNewLocalProxy ==
    /\ cmd = "app" /\ pc = "app_newProxy"
    /\ \E ok \in BOOLEAN :
          IF ok
          THEN /\ lp' = "built"
               /\ pc' = "app_goWatcher"
               /\ UNCHANGED <<ret, listener, released, closeErrs, panicked>>
          ELSE /\ NetListenerClose
               /\ closeErrs' = IF listener = "open" THEN closeErrs ELSE closeErrs + 1
               /\ Return(IF listener = "open" THEN "ErrNewLocalProxy" ELSE "ErrAggregate")
               /\ UNCHANGED lp
    /\ UNCHANGED <<inputVars, defers, opened, lpStopped, lpClosers, ctxDone,
                   wpc, recVars>>

AppGoWatcher == cmd = "app" /\ GoWatcher("app_goWatcher", "app_start")
AppEnterStart == cmd = "app" /\ EnterStart("app_start", "app_started")

\* lp.Start returns; its error is logged and nil is returned
AppStartReturns ==
    /\ cmd = "app" /\ pc = "app_started"
    /\ StartUnblocked
    /\ Return("nil")
    /\ UNCHANGED <<inputVars, defers, sockVars, lpVars, ctxDone, wpc, recVars>>

---------------------------------------------------------------------------
\* Return path, watcher and cancellation

\* the deferred func() { if err := listener.Close(); err != nil { log } }()
DeferredListenerClose ==
    /\ pc = "unwind" /\ defers # <<>> /\ Head(defers) = "listenerClose"
    /\ NetListenerClose
    /\ closeErrs' = IF listener = "open" THEN closeErrs ELSE closeErrs + 1
    /\ defers' = Tail(defers)
    /\ UNCHANGED <<inputVars, pc, ret, opened, lp, lpStopped, lpClosers,
                   ctxDone, wpc, recVars>>

\* the deferred lp.Close()
DeferredProxyClose ==
    /\ pc = "unwind" /\ defers # <<>> /\ Head(defers) = "lpClose"
    /\ LocalProxyClose("defer")
    /\ defers' = Tail(defers)
    /\ UNCHANGED <<inputVars, pc, ret, opened, closeErrs, lp, ctxDone, wpc, recVars>>

\* the command returns to its caller
ReturnToCaller ==
    /\ pc = "unwind" /\ defers = <<>>
    /\ pc' = "done"
    /\ UNCHANGED <<inputVars, ret, defers, sockVars, lpVars, ctxDone, wpc, recVars>>

\* <-cf.Context.Done() in the watcher
WatcherWake ==
    /\ wpc = "w_wait" /\ ctxDone
    /\ wpc' = "w_close"
    /\ UNCHANGED <<inputVars, pc, ret, defers, sockVars, lpVars, ctxDone, recVars>>

\* a watcher that returns after the cancellation without closing the proxy
WatcherCloseSkipped ==
    /\ wpc = "w_close"
    /\ wpc' = "w_done"
    /\ UNCHANGED <<inputVars, pc, ret, defers, sockVars, lpVars, ctxDone, recVars>>

\* lp.Close() in the watcher
WatcherClose ==
    /\ wpc = "w_close"
    /\ LocalProxyClose("watcher")
    /\ wpc' = "w_done"
    /\ UNCHANGED <<inputVars, pc, ret, defers, opened, closeErrs, lp, ctxDone, recVars>>

\* the parent context is cancelled by the caller
Cancel ==
    /\ cmd \in {"db", "app"} /\ ~ctxDone
    /\ ctxDone' = TRUE
    /\ UNCHANGED <<inputVars, pc, ret, defers, sockVars, lpVars, wpc, recVars>>

DBInit ==
    /\ cmd = "db" /\ pc = "db_makeClient"
    /\ certFile \in Paths /\ keyFile \in Paths
    /\ appCached = FALSE /\ notAfter = 0 /\ now = 0

AppInit ==
    /\ cmd = "app" /\ pc = "app_makeClient"
    /\ certFile = "" /\ keyFile = ""
    /\ appCached \in BOOLEAN
    /\ notAfter \in 0..MaxNotAfter
    /\ now \in 0..MaxNow
    /\ (~appCached => notAfter = 0)

Init ==
    /\ DBInit \/ AppInit
    /\ ret = "running" /\ defers = <<>>
    /\ listener = "none" /\ opened = 0 /\ released = 0 /\ closeErrs = 0
    /\ lp = "none" /\ lpStopped = FALSE /\ lpClosers = <<>>
    /\ panicked = FALSE /\ ctxDone = FALSE /\ wpc = "none"
    /\ certsRes = CertsNotCalled /\ loadIn = LoadNotCalled /\ loadRes = "notcalled"
    /\ SSHIdle /\ ClientIdle

\* the steps of the command's goroutine
MainStep ==
    \/ (DBMakeClient /\ UNCHANGED <<sshVars, clientVars>>)
    \/ (DBPickDatabase /\ UNCHANGED <<sshVars, clientVars>>)
    \/ (DBRootCluster /\ UNCHANGED <<sshVars, clientVars>>)
    \/ (DBListen /\ UNCHANGED <<sshVars, clientVars>>)
    \/ (DBMkLocalProxy /\ UNCHANGED <<sshVars, clientVars>>)
    \/ (DBGoWatcher /\ UNCHANGED <<sshVars, clientVars>>)
    \/ (DBStatusCurrent /\ UNCHANGED <<sshVars, clientVars>>)
    \/ (DBTemplate /\ UNCHANGED <<sshVars, clientVars>>)
    \/ (DBEnterStart /\ UNCHANGED <<sshVars, clientVars>>)
    \/ (DBStartReturns /\ UNCHANGED <<sshVars, clientVars>>)
    \/ (AppMakeClient /\ UNCHANGED <<sshVars, clientVars>>)
    \/ (AppLoadCertificate /\ UNCHANGED <<sshVars, clientVars>>)
    \/ (AppParseAddr /\ UNCHANGED <<sshVars, clientVars>>)
    \/ (AppListen /\ UNCHANGED <<sshVars, clientVars>>)
    \/ (AppNewLocalProxy /\ UNCHANGED <<sshVars, clientVars>>)
    \/ (AppGoWatcher /\ UNCHANGED <<sshVars, clientVars>>)
    \/ (AppEnterStart /\ UNCHANGED <<sshVars, clientVars>>)
    \/ (AppStartReturns /\ UNCHANGED <<sshVars, clientVars>>)
    \/ (DeferredListenerClose /\ UNCHANGED <<sshVars, clientVars>>)
    \/ (DeferredProxyClose /\ UNCHANGED <<sshVars, clientVars>>)
    \/ (ReturnToCaller /\ UNCHANGED <<sshVars, clientVars>>)

\* the steps of the watcher goroutine
WatcherStep ==
    \/ (WatcherWake /\ UNCHANGED <<sshVars, clientVars>>)
    \/ (WatcherClose /\ UNCHANGED <<sshVars, clientVars>>)

Next ==
    \/ (DBMakeClient /\ UNCHANGED <<sshVars, clientVars>>)
    \/ (DBPickDatabase /\ UNCHANGED <<sshVars, clientVars>>)
    \/ (DBRootCluster /\ UNCHANGED <<sshVars, clientVars>>)
    \/ (DBListen /\ UNCHANGED <<sshVars, clientVars>>)
    \/ (DBMkLocalProxy /\ UNCHANGED <<sshVars, clientVars>>)
    \/ (DBGoWatcher /\ UNCHANGED <<sshVars, clientVars>>)
    \/ (DBStatusCurrent /\ UNCHANGED <<sshVars, clientVars>>)
    \/ (DBTemplate /\ UNCHANGED <<sshVars, clientVars>>)
    \/ (DBEnterStart /\ UNCHANGED <<sshVars, clientVars>>)
    \/ (DBStartReturns /\ UNCHANGED <<sshVars, clientVars>>)
    \/ (AppMakeClient /\ UNCHANGED <<sshVars, clientVars>>)
    \/ (AppLoadCertificate /\ UNCHANGED <<sshVars, clientVars>>)
    \/ (AppParseAddr /\ UNCHANGED <<sshVars, clientVars>>)
    \/ (AppListen /\ UNCHANGED <<sshVars, clientVars>>)
    \/ (AppNewLocalProxy /\ UNCHANGED <<sshVars, clientVars>>)
    \/ (AppGoWatcher /\ UNCHANGED <<sshVars, clientVars>>)
    \/ (AppEnterStart /\ UNCHANGED <<sshVars, clientVars>>)
    \/ (AppStartReturns /\ UNCHANGED <<sshVars, clientVars>>)
    \/ (DeferredListenerClose /\ UNCHANGED <<sshVars, clientVars>>)
    \/ (DeferredProxyClose /\ UNCHANGED <<sshVars, clientVars>>)
    \/ (ReturnToCaller /\ UNCHANGED <<sshVars, clientVars>>)
    \/ (WatcherWake /\ UNCHANGED <<sshVars, clientVars>>)
    \/ (WatcherClose /\ UNCHANGED <<sshVars, clientVars>>)
    \/ (Cancel /\ UNCHANGED <<sshVars, clientVars>>)

Spec == Init /\ [][Next]_vars

\* The Go scheduler runs every runnable goroutine; cancellation is up to
\* the caller and is not forced.
FairSpec ==
    /\ Spec
    /\ WF_vars(MainStep)
    /\ WF_vars(WatcherStep)

(***************************************************************************)
(* Properties of tsh proxy db / tsh proxy app                              *)
(***************************************************************************)
Range(f) == {f[i] : i \in DOMAIN f}
ExactlyOnePath == (certFile = "") # (keyFile = "")
Remaining == notAfter - now

\* C1: in onProxyCommandDB, over every interleaving of the watcher's
\* lp.Close(), the deferred lp.Close() and the deferred listener.Close(),
\* the listener's socket is released at most once at any time and exactly
\* once by the time the command returns; no Close panics, and no teardown
\* step is ever blocked.
C1_IdempotentShutdown ==
    cmd = "db" =>
        /\ released <= 1
        /\ ~panicked
        /\ (pc = "done" /\ opened = 1 => released = 1)
        /\ (pc = "unwind" =>
               ENABLED (DeferredListenerClose \/ DeferredProxyClose \/ ReturnToCaller))
        /\ (wpc = "w_close" => ENABLED WatcherClose)

\* both lp.Close() calls and the deferred listener.Close() have run
C1_Witness ==
    /\ cmd = "db" /\ pc = "done" /\ wpc = "w_done"
    /\ Len(lpClosers) = 2 /\ closeErrs = 1 /\ released = 1

\* C2 (as claimed): when the database proxy command returns the parameter
\* error for a partial certificate pair, no socket has been opened before.
C2_RejectedBeforeAnySocket ==
    (cmd = "db" /\ ExactlyOnePath /\ ret = "ErrCertKeyBothRequired") => opened = 0

\* C4: loadAppCertificate returns the expired (BadParameter) error exactly
\* when the cached certificate has less than five seconds left, returns
\* NotFound when no certificate is cached, and in onProxyCommandApp every
\* rejection is returned with no listener opened and no proxy constructed.
C4_NearExpiryGuard ==
    (cmd = "app" /\ loadRes # "notcalled") =>
        /\ (loadIn.getKeyOk /\ ~appCached =>
               loadRes = "ErrAppNotLoggedIn" /\ IsNotFound(loadRes))
        /\ (loadIn.getKeyOk /\ appCached /\ loadIn.pairOk
              /\ loadIn.nCerts >= 1 /\ loadIn.parseOk =>
               /\ (loadRes = "ErrAppCertExpired") <=> (Remaining < 5)
               /\ (loadRes = "nil") <=> (Remaining >= 5))
        /\ (loadRes = "ErrAppCertExpired" =>
               appCached /\ Remaining < 5 /\ IsBadParameter(loadRes))
        /\ (loadRes # "nil" =>
               /\ pc \in {"unwind", "done"} /\ ret = loadRes
               /\ opened = 0 /\ listener = "none" /\ lp = "none")

\* a certificate with four seconds left was rejected and the command returned
C4_Witness ==
    /\ cmd = "app" /\ pc = "done" /\ ret = "ErrAppCertExpired"
    /\ Remaining = 4 /\ opened = 0

\* C5: mkLocalProxyCerts returns an empty set and no error for two empty
\* paths, the parameter error and no certificates when exactly one path is
\* empty, and loads the key pair only when both paths are given, returning
\* one certificate or the load error.
C5_LocalProxyCerts ==
    certsRes.called =>
        /\ (certFile = "" /\ keyFile = "" =>
               certsRes.certs = 0 /\ certsRes.err = "nil" /\ ~certsRes.loaded)
        /\ (ExactlyOnePath =>
               /\ certsRes.err = "ErrCertKeyBothRequired"
               /\ IsBadParameter(certsRes.err)
               /\ certsRes.certs = -1 /\ ~certsRes.loaded)
        /\ (certFile # "" /\ keyFile # "" =>
               /\ certsRes.loaded
               /\ \/ certsRes.certs = 1 /\ certsRes.err = "nil"
                  \/ certsRes.certs = -1 /\ certsRes.err = "ErrLoadX509KeyPair")
        /\ (certsRes.loaded => certFile # "" /\ keyFile # "")

\* a certificate path without a key path was rejected
C5_Witness ==
    /\ certsRes.called /\ certFile # "" /\ keyFile = ""
    /\ certsRes.err = "ErrCertKeyBothRequired" /\ ret = "ErrCertKeyBothRequired"

\* C10: whenever onProxyCommandDB or onProxyCommandApp has returned after
\* net.Listen succeeded, the listener is closed.
C10_NoListenerLeak ==
    (cmd \in {"db", "app"} /\ pc = "done" /\ opened > 0) =>
        listener = "closed" /\ released = opened

\* the application command returned after proxy construction failed
C10_Witness ==
    /\ cmd = "app" /\ pc = "done" /\ ret = "ErrNewLocalProxy"
    /\ opened = 1 /\ listener = "closed"

Alphabet == {".", "a", "b"}
StringsUpTo(n) == UNION {[1..k -> Alphabet] : k \in 0..n}
Dot == <<".">>
Colon == <<":">>
SSHPortText == <<"2", "2">>

\* the worked example of the hostname cleaning
ExampleProxy == <<"p","r","o","x","y",".","e","x","a","m","p","l","e",".","c","o","m">>
ExampleSite == <<"e","x","a","m","p","l","e",".","c","o","m">>
ExampleNode == <<"n","o","d","e","1">>
ExampleHost == ExampleNode \o Dot \o ExampleProxy

\* strings.HasSuffix and strings.TrimSuffix
HasSuffix(s, suffix) ==
    /\ Len(suffix) <= Len(s)
    /\ SubSeq(s, Len(s) - Len(suffix) + 1, Len(s)) = suffix
TrimSuffix(s, suffix) ==
    IF HasSuffix(s, suffix) THEN SubSeq(s, 1, Len(s) - Len(suffix)) ELSE s

\* cleanTargetHost with the two trims in the opposite order
cleanTargetHostSiteFirst(host, proxy, site) ==
    LET h1 == TrimSuffix(host, Dot \o site)
    IN  TrimSuffix(h1, Dot \o proxy)

cleanTargetHost(host, proxy, site) ==
    LET h1 == TrimSuffix(host, Dot \o proxy)
    IN  TrimSuffix(h1, Dot \o site)

\* net.SplitHostPort for addresses without brackets: the port follows the
\* last colon, and the host may contain no further colon.
SplitHostPort(hostport) ==
    LET colons == {i \in 1..Len(hostport) : hostport[i] = ":"} IN
    IF colons = {}
    THEN [ok |-> FALSE, host |-> <<>>, port |-> <<>>]
    ELSE LET i == CHOOSE c \in colons : \A d \in colons : d <= c IN
         IF Cardinality(colons) > 1
         THEN [ok |-> FALSE, host |-> <<>>, port |-> <<>>]
         ELSE [ok |-> TRUE,
               host |-> SubSeq(hostport, 1, i - 1),
               port |-> SubSeq(hostport, i + 1, Len(hostport))]

SSHReturn(e) == sshPc' = "done" /\ sshRet' = e

sshInputs == <<tcHost, proxyHost, siteName, tlsRouting>>

\* tc, err := makeClient(cf, false)
SSHMakeClient ==
    /\ sshPc = "ssh_makeClient"
    /\ \E ok \in BOOLEAN :
          IF ok THEN sshPc' = "ssh_split" /\ UNCHANGED sshRet
          ELSE SSHReturn("ErrMakeClient")
    /\ UNCHANGED <<sshInputs, targetHost, targetPort, invoked, stratRet>>

\* targetHost, targetPort, err := net.SplitHostPort(tc.Host)
SSHSplitHostPort ==
    /\ sshPc = "ssh_split"
    /\ LET r == SplitHostPort(tcHost) IN
       IF r.ok
       THEN /\ targetHost' = r.host
            /\ targetPort' = r.port
            /\ sshPc' = "ssh_clean"
            /\ UNCHANGED sshRet
       ELSE /\ SSHReturn("ErrSplitHostPort")
            /\ UNCHANGED <<targetHost, targetPort>>
    /\ UNCHANGED <<sshInputs, invoked, stratRet>>

\* targetHost = cleanTargetHost(targetHost, tc.WebProxyHost(), tc.SiteName)
SSHCleanTargetHost ==
    /\ sshPc = "ssh_clean"
    /\ targetHost' = cleanTargetHost(targetHost, proxyHost, siteName)
    /\ sshPc' = "ssh_dispatch"
    /\ UNCHANGED <<sshInputs, targetPort, invoked, stratRet, sshRet>>

\* a strategy is called with the host and port; arg is the address it
\* builds from them (SSHUserHost, or the proxy subsystem request)
Invoke(strategy, arg, errors) ==
    /\ invoked' = Append(invoked, [strategy |-> strategy, host |-> targetHost,
                                   port |-> targetPort, arg |-> arg])
    /\ \E e \in errors : stratRet' = e /\ SSHReturn(e)
    /\ UNCHANGED <<sshInputs, targetHost, targetPort>>

\* if tc.TLSRoutingEnabled { return sshProxyWithTLSRouting(...) }
SSHTunnel ==
    /\ sshPc = "ssh_dispatch"
    /\ tlsRouting
    /\ Invoke("tunnel", targetHost \o Colon \o targetPort,
              {"nil", "ErrParseAddr", "ErrClientCertPool", "ErrNewLocalProxy",
               "ErrSSHProxy"})

\* the subprocess strategy called whatever the capability flag says
SSHSubprocessUnguarded ==
    /\ sshPc = "ssh_dispatch"
    /\ Invoke("subprocess",
              <<"proxy:">> \o targetHost \o Colon \o targetPort \o <<"@">> \o siteName,
              {"nil", "ErrSSHPath", "ErrChildRun"})

\* return sshProxy(cf, tc, targetHost, targetPort)
SSHSubprocess ==
    /\ sshPc = "ssh_dispatch"
    /\ ~tlsRouting
    /\ Invoke("subprocess",
              <<"proxy:">> \o targetHost \o Colon \o targetPort \o <<"@">> \o siteName,
              {"nil", "ErrSSHPath", "ErrChildRun"})

SSHHosts == StringsUpTo(MaxHostLen) \cup {ExampleHost}
SSHNames == StringsUpTo(MaxNameLen) \cup {ExampleProxy, ExampleSite}

SSHInit ==
    /\ sshPc = "ssh_makeClient"
    /\ \E h \in SSHHosts : tcHost \in {h, h \o Colon \o SSHPortText}
    /\ proxyHost \in SSHNames
    /\ siteName \in SSHNames
    /\ tlsRouting \in BOOLEAN
    /\ targetHost = <<>> /\ targetPort = <<>>
    /\ invoked = <<>> /\ stratRet = "none" /\ sshRet = "running"
    /\ ProxyIdle /\ ClientIdle

SSHNext ==
    \/ (SSHMakeClient /\ UNCHANGED <<proxyVars, clientVars>>)
    \/ (SSHSplitHostPort /\ UNCHANGED <<proxyVars, clientVars>>)
    \/ (SSHCleanTargetHost /\ UNCHANGED <<proxyVars, clientVars>>)
    \/ (SSHTunnel /\ UNCHANGED <<proxyVars, clientVars>>)
    \/ (SSHSubprocess /\ UNCHANGED <<proxyVars, clientVars>>)

SSHSpec == SSHInit /\ [][SSHNext]_vars

(***************************************************************************)
(* Properties of tsh proxy ssh                                             *)
(***************************************************************************)
\* s ends with suffix: some prefix of s followed by suffix is s
EndsWith(s, suffix) == \E k \in 0..Len(s) : SubSeq(s, 1, k) \o suffix = s

\* the host part of tc.Host, as handed to cleanTargetHost
SplitHost == SplitHostPort(tcHost).host
Cleaned == sshPc = "ssh_dispatch" \/ (sshPc = "done" /\ invoked # <<>>)

\* C6: the cleaned host is the input host without one trailing ".<proxyHost>"
\* (removed exactly when the input ends with it) and then without one
\* trailing ".<siteName>" (removed exactly when what is left ends with it),
\* nothing else changed; node1.proxy.example.com becomes node1.
C6_HostnameCleaning ==
    Cleaned =>
        /\ \E s1 \in {<<>>, Dot \o siteName}, s2 \in {<<>>, Dot \o proxyHost} :
              /\ SplitHost = targetHost \o s1 \o s2
              /\ (s2 = <<>> => ~EndsWith(SplitHost, Dot \o proxyHost))
              /\ (s1 = <<>> => ~EndsWith(targetHost, Dot \o siteName))
        /\ (SplitHost = ExampleHost /\ proxyHost = ExampleProxy
              /\ siteName = ExampleSite => targetHost = ExampleNode)

\* the worked example was cleaned to node1
C6_Witness ==
    /\ Cleaned /\ SplitHost = ExampleHost /\ proxyHost = ExampleProxy
    /\ siteName = ExampleSite /\ targetHost = ExampleNode

\* C7: a run of onProxyCommandSSH that got past makeClient and SplitHostPort
\* and returned has invoked exactly one strategy, the tunnel strategy when
\* TLSRoutingEnabled and the subprocess strategy otherwise, with the cleaned
\* host, and returns that strategy's result; no run ever invokes two.
C7_ExclusiveStrategy ==
    /\ Len(invoked) <= 1
    /\ (sshPc # "done" => invoked = <<>>)
    /\ (sshPc = "done" /\ sshRet \notin {"ErrMakeClient", "ErrSplitHostPort"} =>
           /\ Len(invoked) = 1
           /\ invoked[1].strategy = (IF tlsRouting THEN "tunnel" ELSE "subprocess")
           /\ invoked[1].host = cleanTargetHost(SplitHost, proxyHost, siteName)
           /\ invoked[1].port = SSHPortText
           /\ sshRet = stratRet)
    /\ (sshPc = "done" /\ sshRet \in {"ErrMakeClient", "ErrSplitHostPort"} =>
           invoked = <<>>)

\* the tunnel strategy ran with a host that cleaning had shortened
C7_Witness ==
    /\ sshPc = "done" /\ tlsRouting /\ Len(invoked) = 1
    /\ invoked[1].strategy = "tunnel"
    /\ Len(invoked[1].host) < Len(SplitHost)
    /\ sshRet = "ErrSSHProxy"

(***************************************************************************)
(* Client timeout tests                                                    *)
(***************************************************************************)

\* the dial timeout a zero-valued configuration is given
DefaultDialTimeout == 3
\* context.WithTimeout(context.Background(), time.Second*5)
RequestTimeout == 5

\* Config.CheckAndSetDefaults: a zero dial timeout is replaced by the default
CheckAndSetDefaults(timeout) ==
    IF timeout = 0 THEN DefaultDialTimeout ELSE timeout

\* NewClient(cfg): the client works on its own, defaulted copy of cfg
NewClient(timeout) == CheckAndSetDefaults(timeout)

\* time.After(cfg.DialTimeout + (cfg.DialTimeout / 2))
TestDeadline(timeout) == timeout + (timeout \div 2)

hitVars == <<rootHits, slowHits, sawRoot, sawSlow>>

---------------------------------------------------------------------------
\* TestClient_DialTimeout

\* a test that builds its client without the configured dial timeout
TestNewClientNoTimeout ==
    /\ test = "dial" /\ tpc = "t_newClient"
    /\ cltTimeout' = NewClient(0)
    /\ tpc' = "t_checkDefaults"
    /\ UNCHANGED <<test, gpc, cfgTimeout, elapsed, opErr, opEnd, errChan,
                   hitVars, testResult>>

\* cfg := apiclient.Config{DialTimeout: tt.timeout, ...}; clt, err := NewClient(cfg)
TestNewClient ==
    /\ test = "dial" /\ tpc = "t_newClient"
    /\ cltTimeout' = NewClient(cfgTimeout)
    /\ tpc' = "t_checkDefaults"
    /\ UNCHANGED <<test, gpc, cfgTimeout, elapsed, opErr, opEnd, errChan,
                   hitVars, testResult>>

\* require.NoError(t, cfg.CheckAndSetDefaults())
TestCheckDefaults ==
    /\ test = "dial" /\ tpc = "t_checkDefaults"
    /\ cfgTimeout' = CheckAndSetDefaults(cfgTimeout)
    /\ tpc' = "t_go"
    /\ UNCHANGED <<test, gpc, cltTimeout, elapsed, opErr, opEnd, errChan,
                   hitVars, testResult>>

\* go func() { errChan <- clt.CreateSession(...) }()
TestGo ==
    /\ test = "dial" /\ tpc = "t_go"
    /\ gpc' = "g_call"
    /\ tpc' = "t_select"
    /\ UNCHANGED <<test, cfgTimeout, cltTimeout, elapsed, opErr, opEnd, errChan,
                   hitVars, testResult>>

\* CreateSession is started and dials the address
CreateSessionStarts ==
    /\ test = "dial" /\ gpc = "g_call"
    /\ gpc' = "g_dialing"
    /\ UNCHANGED <<test, tpc, cfgTimeout, cltTimeout, elapsed, opErr, opEnd,
                   errChan, hitVars, testResult>>

\* the handshake never completes: the dial gives up at the client's timeout
\* and CreateSession returns the error
DialTimesOut ==
    /\ test = "dial" /\ gpc = "g_dialing"
    /\ elapsed >= cltTimeout
    /\ opErr' = "ErrDialTimeout"
    /\ opEnd' = elapsed
    /\ gpc' = "g_send"
    /\ UNCHANGED <<test, tpc, cfgTimeout, cltTimeout, elapsed, errChan, hitVars,
                   testResult>>

\* errChan <- err
SendErr ==
    /\ test = "dial" /\ gpc = "g_send"
    /\ Len(errChan) < 1
    /\ errChan' = Append(errChan, opErr)
    /\ gpc' = "g_done"
    /\ UNCHANGED <<test, tpc, cfgTimeout, cltTimeout, elapsed, opErr, opEnd,
                   hitVars, testResult>>

\* case err := <-errChan: require.Error(t, err)
TestReceivesErr ==
    /\ test = "dial" /\ tpc = "t_select"
    /\ errChan # <<>>
    /\ testResult' = IF Head(errChan) # "nil" THEN "pass" ELSE "fatal"
    /\ errChan' = Tail(errChan)
    /\ tpc' = "t_done"
    /\ UNCHANGED <<test, gpc, cfgTimeout, cltTimeout, elapsed, opErr, opEnd,
                   hitVars>>

\* case <-time.After(...): t.Fatal("Timed out waiting for dial to complete")
TestTimerFires ==
    /\ test = "dial" /\ tpc = "t_select"
    /\ elapsed >= TestDeadline(cfgTimeout)
    /\ testResult' = "fatal"
    /\ tpc' = "t_done"
    /\ UNCHANGED <<test, gpc, cfgTimeout, cltTimeout, elapsed, opErr, opEnd,
                   errChan, hitVars>>

\* time passes while CreateSession runs; a pending dial does not outlive
\* its timeout
DialTick ==
    /\ test = "dial" /\ gpc \in {"g_dialing", "g_send", "g_done"}
    /\ gpc = "g_dialing" => elapsed < cltTimeout
    /\ elapsed <= TestDeadline(cfgTimeout)
    /\ elapsed' = elapsed + 1
    /\ UNCHANGED <<test, tpc, gpc, cfgTimeout, cltTimeout, opErr, opEnd, errChan,
                   hitVars, testResult>>

---------------------------------------------------------------------------
\* TestClient_RequestTimeout

\* clt.RotateExternalCertAuthority(ctx, ca) sends its request to the
\* initial endpoint
ClientSendsRequest ==
    /\ test = "request" /\ tpc = "r_call"
    /\ tpc' = "r_waitRoot"
    /\ gpc' = "h_root"
    /\ UNCHANGED <<test, cfgTimeout, cltTimeout, elapsed, opErr, opEnd, errChan,
                   hitVars, testResult>>

\* an initial endpoint that answers the request itself
HandleRootNoRedirect ==
    /\ test = "request" /\ gpc = "h_root"
    /\ Len(sawRoot) < 1
    /\ sawRoot' = Append(sawRoot, TRUE)
    /\ rootHits' = rootHits + 1
    /\ gpc' = "h_answered"
    /\ UNCHANGED <<test, tpc, cfgTimeout, cltTimeout, elapsed, opErr, opEnd,
                   errChan, slowHits, sawSlow, testResult>>

\* the handler for /v2/authorities/host/rotate/external:
\* sawRoot <- true; http.Redirect(w, r, "/slow", http.StatusFound)
HandleRoot ==
    /\ test = "request" /\ gpc = "h_root"
    /\ Len(sawRoot) < 1
    /\ sawRoot' = Append(sawRoot, TRUE)
    /\ rootHits' = rootHits + 1
    /\ gpc' = "h_redirected"
    /\ UNCHANGED <<test, tpc, cfgTimeout, cltTimeout, elapsed, opErr, opEnd,
                   errChan, slowHits, sawSlow, testResult>>

\* the client takes the initial endpoint's answer: it follows a redirect,
\* once, and returns on a complete response
ClientReceivesAnswer ==
    /\ test = "request" /\ tpc = "r_waitRoot"
    /\ gpc \in {"h_redirected", "h_answered"}
    /\ IF gpc = "h_redirected"
       THEN /\ tpc' = "r_waitSlow"
            /\ gpc' = "h_slow"
            /\ UNCHANGED <<opErr, opEnd>>
       ELSE /\ opErr' = "nil"
            /\ opEnd' = elapsed
            /\ tpc' = "r_assertErr"
            /\ UNCHANGED gpc
    /\ UNCHANGED <<test, cfgTimeout, cltTimeout, elapsed, errChan, hitVars,
                   testResult>>

\* the handler for /slow: sawSlow <- true; w.Write("Hello"); Flush();
\* <-testDone
HandleSlow ==
    /\ test = "request" /\ gpc = "h_slow"
    /\ Len(sawSlow) < 1
    /\ sawSlow' = Append(sawSlow, TRUE)
    /\ slowHits' = slowHits + 1
    /\ gpc' = "h_blocked"
    /\ UNCHANGED <<test, tpc, cfgTimeout, cltTimeout, elapsed, opErr, opEnd,
                   errChan, rootHits, sawRoot, testResult>>

\* the client has the start of the response and waits for the rest
ClientReadsBody ==
    /\ test = "request" /\ tpc = "r_waitSlow" /\ gpc = "h_blocked"
    /\ tpc' = "r_reading"
    /\ UNCHANGED <<test, gpc, cfgTimeout, cltTimeout, elapsed, opErr, opEnd,
                   errChan, hitVars, testResult>>

\* time passes while the client waits for a response that never finishes;
\* the requests themselves take no measurable part of the five seconds
RequestTick ==
    /\ test = "request" /\ tpc = "r_reading"
    /\ elapsed < RequestTimeout
    /\ elapsed' = elapsed + 1
    /\ UNCHANGED <<test, tpc, gpc, cfgTimeout, cltTimeout, opErr, opEnd, errChan,
                   hitVars, testResult>>

\* the governing context expires and the operation returns its error
DeadlineExpires ==
    /\ test = "request" /\ tpc = "r_reading"
    /\ elapsed >= RequestTimeout
    /\ opErr' = "DeadlineExceeded"
    /\ opEnd' = elapsed
    /\ tpc' = "r_assertErr"
    /\ UNCHANGED <<test, gpc, cfgTimeout, cltTimeout, elapsed, errChan, hitVars,
                   testResult>>

\* require.ErrorIs(t, trace.Unwrap(err), context.DeadlineExceeded)
TestAssertsDeadline ==
    /\ test = "request" /\ tpc = "r_assertErr"
    /\ IF opErr = "DeadlineExceeded"
       THEN tpc' = "r_checkRoot" /\ UNCHANGED testResult
       ELSE tpc' = "r_cleanup" /\ testResult' = "fatal"
    /\ UNCHANGED <<test, gpc, cfgTimeout, cltTimeout, elapsed, opErr, opEnd,
                   errChan, hitVars>>

\* select { case <-sawRoot: default: t.Fatal(...) }
TestChecksRoot ==
    /\ test = "request" /\ tpc = "r_checkRoot"
    /\ IF sawRoot # <<>>
       THEN sawRoot' = Tail(sawRoot) /\ tpc' = "r_checkSlow" /\ UNCHANGED testResult
       ELSE tpc' = "r_cleanup" /\ testResult' = "fatal" /\ UNCHANGED sawRoot
    /\ UNCHANGED <<test, gpc, cfgTimeout, cltTimeout, elapsed, opErr, opEnd,
                   errChan, rootHits, slowHits, sawSlow>>

\* select { case <-sawSlow: default: t.Fatal(...) }
TestChecksSlow ==
    /\ test = "request" /\ tpc = "r_checkSlow"
    /\ IF sawSlow # <<>>
       THEN sawSlow' = Tail(sawSlow) /\ testResult' = "pass"
       ELSE testResult' = "fatal" /\ UNCHANGED sawSlow
    /\ tpc' = "r_cleanup"
    /\ UNCHANGED <<test, gpc, cfgTimeout, cltTimeout, elapsed, opErr, opEnd,
                   errChan, rootHits, slowHits, sawRoot>>

\* t.Cleanup(func() { close(testDone) }) unblocks the /slow handler
TestCleanup ==
    /\ test = "request" /\ tpc = "r_cleanup"
    /\ gpc' = IF gpc = "h_blocked" THEN "h_done" ELSE gpc
    /\ tpc' = "r_done"
    /\ UNCHANGED <<test, cfgTimeout, cltTimeout, elapsed, opErr, opEnd, errChan,
                   hitVars, testResult>>

ClientInit ==
    /\ \/ test = "dial" /\ tpc = "t_newClient" /\ cfgTimeout \in 0..MaxDialTimeout
       \/ test = "request" /\ tpc = "r_call" /\ cfgTimeout = 0
    /\ gpc = "none" /\ cltTimeout = 0 /\ elapsed = 0
    /\ opErr = "pending" /\ opEnd = 0 /\ errChan = <<>>
    /\ rootHits = 0 /\ slowHits = 0 /\ sawRoot = <<>> /\ sawSlow = <<>>
    /\ testResult = "running"
    /\ ProxyIdle /\ SSHIdle

ClientNext ==
    \/ (TestNewClient /\ UNCHANGED <<proxyVars, sshVars>>)
    \/ (TestCheckDefaults /\ UNCHANGED <<proxyVars, sshVars>>)
    \/ (TestGo /\ UNCHANGED <<proxyVars, sshVars>>)
    \/ (CreateSessionStarts /\ UNCHANGED <<proxyVars, sshVars>>)
    \/ (DialTimesOut /\ UNCHANGED <<proxyVars, sshVars>>)
    \/ (SendErr /\ UNCHANGED <<proxyVars, sshVars>>)
    \/ (TestReceivesErr /\ UNCHANGED <<proxyVars, sshVars>>)
    \/ (TestTimerFires /\ UNCHANGED <<proxyVars, sshVars>>)
    \/ (DialTick /\ UNCHANGED <<proxyVars, sshVars>>)
    \/ (ClientSendsRequest /\ UNCHANGED <<proxyVars, sshVars>>)
    \/ (HandleRoot /\ UNCHANGED <<proxyVars, sshVars>>)
    \/ (ClientReceivesAnswer /\ UNCHANGED <<proxyVars, sshVars>>)
    \/ (HandleSlow /\ UNCHANGED <<proxyVars, sshVars>>)
    \/ (ClientReadsBody /\ UNCHANGED <<proxyVars, sshVars>>)
    \/ (RequestTick /\ UNCHANGED <<proxyVars, sshVars>>)
    \/ (DeadlineExpires /\ UNCHANGED <<proxyVars, sshVars>>)
    \/ (TestAssertsDeadline /\ UNCHANGED <<proxyVars, sshVars>>)
    \/ (TestChecksRoot /\ UNCHANGED <<proxyVars, sshVars>>)
    \/ (TestChecksSlow /\ UNCHANGED <<proxyVars, sshVars>>)
    \/ (TestCleanup /\ UNCHANGED <<proxyVars, sshVars>>)

ClientSpec == ClientInit /\ [][ClientNext]_vars

====
